---- MODULE Spec2Model ----
(***************************************************************************)
(* Model of the AST rewrite engine of src/src/main.rs: the Modernizer      *)
(* visitor (struct Modernizer, transform_method_call, apply_rule_template, *)
(* transform_expr_call, VisitMut::visit_expr_mut) walking a syn expression *)
(* tree in post-order under an ordered list of ModernizerRule records.     *)
(*                                                                         *)
(* One step of the model is one call of visit_expr_mut on one expression   *)
(* node, taken after the default walk has already been applied to the      *)
(* node's children (line 207).  A panic! raised inside parse_quote! ends   *)
(* the walk (pc = "panicked").                                             *)
(***************************************************************************)
EXTENDS Integers, Sequences, FiniteSets, TLC

VARIABLES
    rules,      \* Modernizer.rules (line 71)
    tree,       \* the expression tree being mutated in place
    orig,       \* the tree handed to the current traversal
    todo,       \* paths still to be visited by this traversal, in visit order
    changed,    \* Modernizer.changed (line 69)
    counters,   \* Modernizer.counters (line 70), absent key = 0
    pc,         \* "walking", "done" (visit_file_mut returned), "panicked"
    run,        \* 1 = first traversal, 2 = traversal of the first one's output
    last        \* what the latest call of visit_expr_mut saw and did

vars == <<rules, tree, orig, todo, changed, counters, pc, run, last>>

(***************************************************************************)
(* Bounds of the model.                                                    *)
(***************************************************************************)
MaxChain == 2   \* method calls chained on the base expression of an input
MaxRules == 2   \* rules in the rule list

(***************************************************************************)
(* Expressions (syn::Expr).  kids holds the sub-expressions in the order   *)
(* syn's default visitor walks them: receiver then args for a method call, *)
(* func then args for a call, the inner expression for (e), e? and the     *)
(* tail expression of an unsafe block.  name is the method identifier or   *)
(* the last path segment; text is the value of a string literal as a       *)
(* sequence of words; attrs are the attributes attached to the node.       *)
(***************************************************************************)
Node(kind, name, text, kids) ==
    [kind |-> kind, name |-> name, text |-> text, kids |-> kids, attrs |-> <<>>]

Path(ident)            == Node("Path", ident, <<>>, <<>>)
LitStr(text)           == Node("Lit", "", text, <<>>)
MethodCall(recv, m, a) == Node("MethodCall", m, <<>>, <<recv>> \o a)
Call(func, a)          == Node("Call", "", <<>>, <<func>> \o a)
Paren(e)               == Node("Paren", "", <<>>, <<e>>)
Try(e)                 == Node("Try", "", <<>>, <<e>>)
Unsafe(e)              == Node("Unsafe", "", <<>>, <<e>>)

\* Option<Expr>::None, and the unwinding of a panic out of parse_quote!
NoneExpr  == Node("None", "", <<>>, <<>>)
PanicExpr == Node("Panic", "", <<>>, <<>>)

Receiver(mc) == mc.kids[1]
Args(n)      == SubSeq(n.kids, 2, Len(n.kids))

(***************************************************************************)
(* Tree addressing.  A path is the sequence of child indexes from the root.*)
(***************************************************************************)
RECURSIVE NodeAt(_, _)
NodeAt(t, p) == IF p = <<>> THEN t ELSE NodeAt(t.kids[Head(p)], Tail(p))

RECURSIVE ReplaceAt(_, _, _)
ReplaceAt(t, p, n) ==
    IF p = <<>> THEN n
    ELSE [t EXCEPT !.kids[Head(p)] = ReplaceAt(t.kids[Head(p)], Tail(p), n)]

Prefixed(i, ps) == [k \in 1..Len(ps) |-> <<i>> \o ps[k]]

RECURSIVE PostOrder(_)
RECURSIVE PostOrderKids(_, _)
\* visit_expr_mut: children first (line 207), then the node itself
PostOrder(t) == PostOrderKids(t, 1) \o << <<>> >>
PostOrderKids(t, i) ==
    IF i > Len(t.kids) THEN <<>>
    ELSE Prefixed(i, PostOrder(t.kids[i])) \o PostOrderKids(t, i + 1)

(***************************************************************************)
(* Rules (struct ModernizerRule, lines 19-36).  replacement_template,      *)
(* level_icon and doc_url only reach println! and a string that is never   *)
(* used (lines 91-93, 159, 180), so they are left out.  nested_method is   *)
(* an Option<String>: <<>> is None, <<s>> is Some(s).                       *)
(***************************************************************************)
Rule(id, ast_type, method_name, args_count, nested_method) ==
    [id |-> id, ast_type |-> ast_type, method_name |-> method_name,
     args_count |-> args_count, nested_method |-> nested_method]

IdUnwrap == "unwrap_to_try"
IdExpect == "expect_to_try"
IdOkUnwrap == "ok_unwrap_to_try"
IdMemUninit == "mem_uninitialized_to_maybeuninit"
IdCustom == "custom_rule"

DeprecatedName == "mem::uninitialized"
PlaceholderMsg == "Expect message removed, manual review needed."
\* line 189 (backquotes left out)
WarningText ==
    "WARNING: This conversion remains unsafe and MUST be manually reviewed for initialization correctness."

(***************************************************************************)
(* parse_quote! (lines 109-113, 119-122, 187-194).  The macro input is a    *)
(* token stream: the Rust lexer drops every // comment before the macro    *)
(* sees it, #x interpolates x.to_tokens() (a String becomes one string     *)
(* literal token, an Expr its own tokens), and the resulting tokens are    *)
(* parsed as one Expr; parse_quote! panics when they do not parse.         *)
(***************************************************************************)
Comment(s)    == [tok |-> "comment", str |-> <<s>>, expr |-> NoneExpr]
StrLit(words) == [tok |-> "lit", str |-> words, expr |-> NoneExpr]
Interp(e)     == [tok |-> "expr", str |-> <<>>, expr |-> e]
Punct(s)      == [tok |-> "punct", str |-> <<s>>, expr |-> NoneExpr]
Keyword(s)    == [tok |-> "kw", str |-> <<s>>, expr |-> NoneExpr]
Block(e)      == [tok |-> "block", str |-> <<>>, expr |-> e]

IsCode(t) == t.tok # "comment"

StripComments(ts) == SelectSeq(ts, IsCode)

RECURSIVE Graft(_, _)
\* The tokens  "words" e  parsed as an expression: the literal is an atom and
\* only a postfix continuation may follow it.  When the leftmost token of e
\* is a parenthesis group the parser reads a call of the literal; any other
\* leftmost token (identifier, literal, keyword) is an unexpected token.
Graft(words, e) ==
    IF e.kind = "Paren" THEN Call(LitStr(words), <<e.kids[1]>>)
    ELSE IF e.kind \in {"MethodCall", "Call", "Try"}
    THEN LET g == Graft(words, e.kids[1])
         IN  IF g = PanicExpr THEN PanicExpr ELSE [e EXCEPT !.kids[1] = g]
    ELSE PanicExpr

IsTry(ts, i) == ts[i].tok = "punct" /\ ts[i].str = <<"?">>

ParseExpr(ts) ==
    IF Len(ts) = 2 /\ ts[1].tok = "expr" /\ IsTry(ts, 2)
    THEN Try(ts[1].expr)
    ELSE IF Len(ts) = 3 /\ ts[1].tok = "lit" /\ ts[2].tok = "expr" /\ IsTry(ts, 3)
    THEN LET g == Graft(ts[1].str, ts[2].expr)
         IN  IF g = PanicExpr THEN PanicExpr ELSE Try(g)
    ELSE IF Len(ts) = 2 /\ ts[1] = Keyword("unsafe") /\ ts[2].tok = "block"
    THEN Unsafe(ts[2].expr)
    ELSE PanicExpr

ParseQuote(ts) == ParseExpr(StripComments(ts))

\* lines 101-107
Note(rule) ==
    IF rule.id = IdExpect THEN <<"// NOTE:", PlaceholderMsg>> ELSE <<>>

\* lines 109-113
UnaryTemplate(rule, receiver) ==
    << Comment("DOC: Converted legacy call to ? (idiomatic error propagation). Ref: #doc_url"),
       StrLit(Note(rule)), Interp(receiver), Punct("?") >>

\* lines 119-122
ChainedTemplate(inner_receiver) ==
    << Comment("DOC: Converted ok().unwrap() to ?. Ref: #doc_url"),
       Interp(inner_receiver), Punct("?") >>

\* std::mem::MaybeUninit::uninit().assume_init()
MaybeUninitExpr == MethodCall(Call(Path("uninit"), <<>>), "assume_init", <<>>)

\* lines 187-194
UninitTemplate ==
    << Comment("DOC: std::mem::uninitialized is deprecated. Replaced with MaybeUninit usage."),
       Comment(WarningText),
       Comment("Ref: #doc_url"),
       Keyword("unsafe"), Block(MaybeUninitExpr) >>

(***************************************************************************)
(* Modernizer::apply_rule_template (lines 84-133).                         *)
(***************************************************************************)
ApplyRuleTemplate_KeepsOk(method_call, rule) ==
    IF rule.id \in {IdUnwrap, IdExpect}
    THEN ParseQuote(UnaryTemplate(rule, Receiver(method_call)))
    ELSE IF rule.id = IdOkUnwrap
    THEN IF Receiver(method_call).kind = "MethodCall"
         THEN ParseQuote(ChainedTemplate(Receiver(method_call)))
         ELSE NoneExpr
    ELSE NoneExpr

ApplyRuleTemplate_Fallback(method_call, rule) ==
    IF rule.id \in {IdUnwrap, IdExpect}
    THEN ParseQuote(UnaryTemplate(rule, Receiver(method_call)))
    ELSE IF rule.id = IdOkUnwrap
    THEN IF Receiver(method_call).kind = "MethodCall"
         THEN ParseQuote(ChainedTemplate(Receiver(Receiver(method_call))))
         ELSE ParseQuote(ChainedTemplate(Receiver(method_call)))
    ELSE NoneExpr

ApplyRuleTemplate(method_call, rule) ==
    IF rule.id \in {IdUnwrap, IdExpect}
    THEN ParseQuote(UnaryTemplate(rule, Receiver(method_call)))
    ELSE IF rule.id = IdOkUnwrap
    THEN IF Receiver(method_call).kind = "MethodCall"
         THEN ParseQuote(ChainedTemplate(Receiver(Receiver(method_call))))
         ELSE NoneExpr
    ELSE NoneExpr

(***************************************************************************)
(* Modernizer::transform_method_call (lines 136-168).                      *)
(***************************************************************************)
\* line 143
BasicMatch(method_call, rule) ==
    /\ rule.method_name = method_call.name
    /\ rule.args_count = Len(Args(method_call))

IsNestedMatch_Ignored(method_call, rule) == TRUE

\* lines 146-155
IsNestedMatch(method_call, rule) ==
    IF rule.nested_method = <<>> THEN TRUE
    ELSE /\ Receiver(method_call).kind = "MethodCall"
         /\ Receiver(method_call).name = rule.nested_method[1]

\* lines 140-157: the rule reaches apply_rule_template
PassesFilters(method_call, rule) ==
    /\ rule.ast_type = "ExprMethodCall"
    /\ BasicMatch(method_call, rule)
    /\ IsNestedMatch(method_call, rule)

\* the rules at which the loop of lines 139-166 stops: apply_rule_template
\* returned Some (line 158) or panicked inside parse_quote!
Stops(method_call, rs) ==
    { i \in 1..Len(rs) : /\ PassesFilters(method_call, rs[i])
                         /\ ApplyRuleTemplate(method_call, rs[i]) # NoneExpr }

MinOf(S) == CHOOSE i \in S : \A j \in S : i <= j
MaxOf(S) == CHOOSE i \in S : \A j \in S : i >= j

FiringRule_Last(method_call, rs) ==
    IF Stops(method_call, rs) = {} THEN 0 ELSE MaxOf(Stops(method_call, rs))

\* the index of the rule the for loop returns (or panics) at, 0 when the
\* loop runs to its end (line 167)
FiringRule(method_call, rs) ==
    IF Stops(method_call, rs) = {} THEN 0 ELSE MinOf(Stops(method_call, rs))

Bump(ctrs, id) == [ctrs EXCEPT ![id] = @ + 1]

\* the outcome of one transform_* call: the Option<Expr> returned (or the
\* panic), the index of the rule that produced it, and the tracker after it
Outcome(expr, fired, chg, ctrs) ==
    [expr |-> expr, fired |-> fired, changed |-> chg, counters |-> ctrs]

TransformMethodCall(method_call, rs, chg, ctrs) ==
    LET k == FiringRule(method_call, rs)
    IN  IF k = 0 THEN Outcome(NoneExpr, 0, chg, ctrs)
        ELSE LET new_expr == ApplyRuleTemplate(method_call, rs[k])
             IN  IF new_expr = PanicExpr
                 THEN Outcome(PanicExpr, k, chg, ctrs)
                 ELSE Outcome(new_expr, k, TRUE, Bump(ctrs, rs[k].id))

(***************************************************************************)
(* Modernizer::transform_expr_call (lines 171-201).                        *)
(***************************************************************************)
\* lines 173-179; rule.args_count is not read
CallRuleMatches(expr_call, rule) ==
    /\ rule.ast_type = "ExprCall"
    /\ rule.id = IdMemUninit
    /\ expr_call.kids[1].kind = "Path"
    /\ expr_call.kids[1].name = rule.method_name
    /\ Args(expr_call) = <<>>

CallStops(expr_call, rs) ==
    { i \in 1..Len(rs) : CallRuleMatches(expr_call, rs[i]) }

TransformExprCall(expr_call, rs, chg, ctrs) ==
    IF CallStops(expr_call, rs) = {} THEN Outcome(NoneExpr, 0, chg, ctrs)
    ELSE LET k == MinOf(CallStops(expr_call, rs))
         IN  Outcome(ParseQuote(UninitTemplate), k, TRUE, Bump(ctrs, rs[k].id))

(***************************************************************************)
(* The literal arm of visit_expr_mut (lines 217-225).                      *)
(***************************************************************************)
\* str::contains at the granularity of the words of the literal
Contains(text, word) == \E i \in 1..Len(text) : text[i] = word

LitChanged_Forgotten(expr_lit, chg) == chg

LitChanged(expr_lit, chg) ==
    IF Contains(expr_lit.text, DeprecatedName) THEN TRUE ELSE chg

(***************************************************************************)
(* Inputs.  A rule list is what load_rules hands to Modernizer::new        *)
(* (lines 246, 287); a tree is what syn::parse_file produced (line 282).   *)
(* Trees are a base expression with up to MaxChain method calls chained on *)
(* it; rule lists hold up to MaxRules rules with distinct ids.             *)
(***************************************************************************)
RUnwrap      == Rule(IdUnwrap, "ExprMethodCall", "unwrap", 0, <<>>)
RExpect      == Rule(IdExpect, "ExprMethodCall", "expect", 1, <<>>)
RChained     == Rule(IdOkUnwrap, "ExprMethodCall", "unwrap", 0, <<"ok">>)
RChainedUnw  == Rule(IdOkUnwrap, "ExprMethodCall", "unwrap", 0, <<"unwrap">>)
RChainedExp  == Rule(IdOkUnwrap, "ExprMethodCall", "unwrap", 0, <<"expect">>)
RChainedAny  == Rule(IdOkUnwrap, "ExprMethodCall", "unwrap", 0, <<>>)
RCustom      == Rule(IdCustom, "ExprMethodCall", "unwrap", 0, <<>>)
RMemUninit   == Rule(IdMemUninit, "ExprCall", "uninitialized", 0, <<>>)
RMemUninit1  == Rule(IdMemUninit, "ExprCall", "uninitialized", 1, <<>>)

RulePool ==
    {RUnwrap, RExpect, RChained, RChainedUnw, RChainedExp, RChainedAny,
     RCustom, RMemUninit, RMemUninit1}

RuleIds == {r.id : r \in RulePool}

DistinctIds(rs) ==
    \A i, j \in 1..Len(rs) : i # j => rs[i].id # rs[j].id

RuleLists ==
    { rs \in UNION { [1..n -> RulePool] : n \in 0..MaxRules } : DistinctIds(rs) }

Value == Path("value")
Boom  == LitStr(<<"boom">>)

\* value.ok().unwrap()
OkUnwrapInput == MethodCall(MethodCall(Value, "ok", <<>>), "unwrap", <<>>)

Bases ==
    { Value, Paren(Value), LitStr(<<"see", DeprecatedName>>),
      Call(Path("uninitialized"), <<>>), Call(Path("uninitialized"), <<Value>>) }

Links(e) ==
    { MethodCall(e, "unwrap", <<>>), MethodCall(e, "ok", <<>>),
      MethodCall(e, "expect", <<Boom>>), MethodCall(e, "expect", <<Value>>),
      MethodCall(e, "expect", <<OkUnwrapInput>>),
      MethodCall(e, "unwrap", <<Value>>) }

RECURSIVE Chains(_)
Chains(n) ==
    IF n = 0 THEN Bases
    ELSE Chains(n - 1) \cup UNION { Links(e) : e \in Chains(n - 1) }

InputTrees == Chains(MaxChain)

\* Modernizer::new (lines 75-81): an empty HashMap reads as 0 for every id
NoCounters == [id \in RuleIds |-> 0]

NoVisit ==
    [seen |-> FALSE, path |-> <<>>, before |-> NoneExpr, fired |-> 0,
     changed |-> FALSE, counters |-> NoCounters]

Init ==
    /\ rules \in RuleLists
    /\ tree \in InputTrees
    /\ orig = tree
    /\ todo = PostOrder(tree)
    /\ changed = FALSE
    /\ counters = NoCounters
    /\ pc = "walking"
    /\ run = 1
    /\ last = NoVisit

(***************************************************************************)
(* VisitMut::visit_expr_mut (lines 205-233), once the default walk of      *)
(* line 207 has returned for the node at the head of todo.                 *)
(***************************************************************************)
Current == NodeAt(tree, Head(todo))

Substitute_Dropped(t, p, expr) == t

\* *i = expr (line 231)
Substitute(t, p, expr) == ReplaceAt(t, p, expr)

\* lines 230-232, or the panic leaving the walk
Commit(out) ==
    /\ last' = [seen |-> TRUE, path |-> Head(todo), before |-> Current,
                fired |-> out.fired, changed |-> changed, counters |-> counters]
    /\ IF out.expr = PanicExpr
       THEN /\ pc' = "panicked"
            /\ UNCHANGED <<tree, todo, changed, counters>>
       ELSE /\ tree' = IF out.expr = NoneExpr THEN tree
                       ELSE Substitute(tree, Head(todo), out.expr)
            /\ todo' = Tail(todo)
            /\ changed' = out.changed
            /\ counters' = out.counters
            /\ pc' = pc
    /\ UNCHANGED <<rules, orig, run>>

Visiting == pc = "walking" /\ todo # <<>>

\* line 211
VisitMethodCall ==
    /\ Visiting
    /\ Current.kind = "MethodCall"
    /\ Commit(TransformMethodCall(Current, rules, changed, counters))

\* line 214
VisitCall ==
    /\ Visiting
    /\ Current.kind = "Call"
    /\ Commit(TransformExprCall(Current, rules, changed, counters))

\* lines 217-225
VisitLit ==
    /\ Visiting
    /\ Current.kind = "Lit"
    /\ Commit(Outcome(NoneExpr, 0, LitChanged(Current, changed), counters))

\* line 227
VisitOther ==
    /\ Visiting
    /\ Current.kind \notin {"MethodCall", "Call", "Lit"}
    /\ Commit(Outcome(NoneExpr, 0, changed, counters))

\* visit_file_mut returns (line 288)
WalkDone ==
    /\ pc = "walking"
    /\ todo = <<>>
    /\ pc' = "done"
    /\ UNCHANGED <<rules, tree, orig, todo, changed, counters, run, last>>

\* the engine is run again, with a new Modernizer (line 287), on the tree the
\* first run left
Rerun ==
    /\ pc = "done"
    /\ run = 1
    /\ run' = 2
    /\ orig' = tree
    /\ todo' = PostOrder(tree)
    /\ changed' = FALSE
    /\ counters' = NoCounters
    /\ pc' = "walking"
    /\ last' = NoVisit
    /\ UNCHANGED <<rules, tree>>

Next ==
    \/ VisitMethodCall
    \/ VisitCall
    \/ VisitLit
    \/ VisitOther
    \/ WalkDone
    \/ Rerun

Spec == Init /\ [][Next]_vars

TypeOK ==
    /\ pc \in {"walking", "done", "panicked"}
    /\ run \in {1, 2}
    /\ changed \in BOOLEAN
    /\ \A id \in RuleIds : counters[id] \in Nat

(***************************************************************************)
(* Vocabulary of the properties.                                           *)
(***************************************************************************)
\* the node now standing where the latest visit took place
LastNode == NodeAt(tree, last.path)

Panicked == pc = "panicked"

VisitedMethodCall == last.seen /\ last.before.kind = "MethodCall"

\* a replacement was built: neither None nor a panic
Instantiates(mc, rule) == ApplyRuleTemplate(mc, rule) \notin {NoneExpr, PanicExpr}

Filtered(mc) == { i \in 1..Len(rules) : PassesFilters(mc, rules[i]) }

\* the rule has no instantiation family, or it is of the chained family and
\* the receiver is no method call
CannotInstantiate(mc, rule) ==
    \/ rule.id \notin {IdUnwrap, IdExpect, IdOkUnwrap}
    \/ rule.id = IdOkUnwrap /\ Receiver(mc).kind # "MethodCall"

TrackerUntouched == counters = last.counters /\ changed = last.changed

Bumped(id) == counters[id] = last.counters[id] + 1

HasNestedReceiver(mc, nested) ==
    Receiver(mc).kind = "MethodCall" /\ Receiver(mc).name = nested

Annotations(n) == { n.attrs[i] : i \in 1..Len(n.attrs) }

IndexOf(rs, r) == { i \in 1..Len(rs) : rs[i] = r }

ChainedLeads(rs) ==
    \E c \in IndexOf(rs, RChained) : \E u \in IndexOf(rs, RUnwrap) : c < u

(***************************************************************************)
(* C1                                                                      *)
(***************************************************************************)
\* C1 as stated: whenever two rules both pass the filters for the visited
\* method call, the earlier one fires and the counter of the later one is
\* not incremented by the visit (looked at on the visits that return).
C1_AsClaimed ==
    (VisitedMethodCall /\ ~Panicked) =>
        \A i, j \in Filtered(last.before) :
            i < j => /\ last.fired = i
                     /\ counters[rules[j].id] = last.counters[rules[j].id]

\* C1 amended: when two rules both pass the filters for the visited method
\* call and the earlier one is instantiated to a replacement, the later one
\* does not fire and its counter is not incremented by the visit; the rule
\* the loop stops at is at or before the earlier one.
C1_Priority ==
    VisitedMethodCall =>
        \A i, j \in Filtered(last.before) :
            (i < j /\ Instantiates(last.before, rules[i])) =>
                /\ last.fired \in 1..i
                /\ counters[rules[j].id] = last.counters[rules[j].id]

C1_Witness ==
    /\ VisitedMethodCall
    /\ ~Panicked
    /\ \E i, j \in Filtered(last.before) :
          /\ i < j
          /\ Instantiates(last.before, rules[i])
          /\ last.fired = i
          /\ Bumped(rules[i].id)
          /\ counters[rules[j].id] = 0

(***************************************************************************)
(* C2                                                                      *)
(***************************************************************************)
\* C2 as stated: for the input value.ok().unwrap() and any rule list holding
\* both the chained rule and the unary rule, in either order, the traversal
\* ends with the tree value?, the chained counter at 1 and the unary
\* counter at 0.
C2_AsClaimed ==
    ( /\ run = 1
      /\ orig = OkUnwrapInput
      /\ IndexOf(rules, RChained) # {}
      /\ IndexOf(rules, RUnwrap) # {}
      /\ pc \in {"done", "panicked"} )
    => /\ pc = "done"
       /\ tree = Try(Value)
       /\ counters[IdOkUnwrap] = 1
       /\ counters[IdUnwrap] = 0

\* C2 amended: for the input value.ok().unwrap() and a rule list in which
\* the chained rule precedes the unary rule, the traversal never panics,
\* the tree is never value.ok()?, and it ends with the tree value?, the
\* chained counter at 1 and the unary counter at 0.
C2_ChainedFirst ==
    (run = 1 /\ orig = OkUnwrapInput /\ ChainedLeads(rules))
    => /\ ~Panicked
       /\ tree # Try(MethodCall(Value, "ok", <<>>))
       /\ counters[IdUnwrap] = 0
       /\ pc = "done" => /\ tree = Try(Value)
                         /\ counters[IdOkUnwrap] = 1
                         /\ changed

C2_Witness ==
    /\ run = 1
    /\ orig = OkUnwrapInput
    /\ ChainedLeads(rules)
    /\ pc = "done"
    /\ tree = Try(Value)
    /\ last.fired \in IndexOf(rules, RChained)

(***************************************************************************)
(* C3                                                                      *)
(***************************************************************************)
\* C3 as stated: when the expect_to_try rule is applied to value.expect(m)
\* with m a string literal, the node becomes value? carrying an annotation
\* that holds the text of m, and the expect_to_try counter goes up by one.
C3_AsClaimed ==
    ( /\ VisitedMethodCall
      /\ last.fired > 0
      /\ rules[last.fired].id = IdExpect
      /\ Args(last.before)[1].kind = "Lit" )
    => /\ ~Panicked
       /\ LastNode.kind = "Try"
       /\ LastNode.kids = <<Receiver(last.before)>>
       /\ \E a \in Annotations(LastNode) :
             \A k \in 1..Len(Args(last.before)[1].text) :
                 Contains(a, Args(last.before)[1].text[k])
       /\ Bumped(IdExpect)

(***************************************************************************)
(* C4                                                                      *)
(***************************************************************************)
ThreeRules(rs) == \A i \in 1..Len(rs) : rs[i] \in {RUnwrap, RExpect, RChained}

\* C4: with a rule list made of the unwrap, expect and chained ok-unwrap
\* rules, the second traversal, run on the tree the first one produced,
\* never panics, replaces no node (the tree stays equal to its input) and
\* increments no counter.
C4_Idempotent ==
    (run = 2 /\ ThreeRules(rules))
    => /\ ~Panicked
       /\ tree = orig
       /\ counters = NoCounters

\* the first run rewrote the root to a propagation and the second run ended
C4_Witness ==
    /\ run = 2
    /\ ThreeRules(rules)
    /\ pc = "done"
    /\ tree.kind = "Try"
    /\ tree = orig

(***************************************************************************)
(* C5                                                                      *)
(***************************************************************************)
\* C5 as stated: the traversal never aborts; in particular building the
\* unwrap_to_try or expect_to_try replacement never crashes the walk.
C5_AsClaimed == ~Panicked

LaterCandidates(mc, m) ==
    { j \in Filtered(mc) : j > m /\ ~CannotInstantiate(mc, rules[j]) }

C7_AsClaimed ==
    ( /\ last.seen
      /\ last.before.kind = "Call"
      /\ last.fired > 0 )
    => /\ LastNode.kind = "Unsafe"
       /\ LastNode.kids = <<MaybeUninitExpr>>
       /\ \E a \in Annotations(LastNode) : Contains(a, WarningText)
       /\ Bumped(IdMemUninit)

(***************************************************************************)
(* C8                                                                      *)
(***************************************************************************)
\* C8: after the visit of a string literal whose text contains the
\* deprecated API name, the literal is the same node as before the visit
\* and as in the input, the changed flag is true and every counter has the
\* value it had before the visit.
C8_DetectionOnly ==
    ( /\ last.seen
      /\ last.before.kind = "Lit"
      /\ Contains(last.before.text, DeprecatedName) )
    => /\ ~Panicked
       /\ LastNode = last.before
       /\ LastNode = NodeAt(orig, last.path)
       /\ changed
       /\ counters = last.counters
       /\ last.fired = 0

C8_Witness ==
    /\ last.seen
    /\ last.before.kind = "Lit"
    /\ Contains(last.before.text, DeprecatedName)
    /\ ~last.changed
    /\ changed
    /\ tree = orig

(***************************************************************************)
(* C9                                                                      *)
(***************************************************************************)
\* C9 as stated: a rule fires on a method call or on a bare call only if
\* its arity field equals the number of arguments of the node.
C9_AsClaimed ==
    (last.seen /\ last.fired > 0)
    => rules[last.fired].args_count = Len(Args(last.before))

(***************************************************************************)
(* C10                                                                     *)
(***************************************************************************)
\* C10 as stated: when a method call is about to be examined, the nested
\* check of a rule comes out true whenever the receiver the node had in the
\* input tree is a method call named as the nested trigger of the rule.
C10_AsClaimed ==
    (run = 1 /\ Visiting /\ Current.kind = "MethodCall")
    => \A i \in 1..Len(rules) :
          ( /\ rules[i].nested_method # <<>>
            /\ HasNestedReceiver(NodeAt(orig, Head(todo)), rules[i].nested_method[1]) )
          => IsNestedMatch(Current, rules[i])

\* C10 amended: the nested check is evaluated against the receiver as it
\* stands when the node is visited, after the walk has processed it: a rule
\* with a nested trigger fires only on a node whose receiver is, at the
\* visit, a method call named as the nested trigger.
C10_CurrentReceiver ==
    ( /\ VisitedMethodCall
      /\ last.fired > 0
      /\ rules[last.fired].nested_method # <<>> )
    => HasNestedReceiver(last.before, rules[last.fired].nested_method[1])

\* the input receiver was a method call named as the nested trigger, it was
\* replaced before the visit, and the rule did not fire
C10_Witness ==
    /\ VisitedMethodCall
    /\ run = 1
    /\ ~Panicked
    /\ \E i \in 1..Len(rules) :
          /\ rules[i].nested_method # <<>>
          /\ BasicMatch(last.before, rules[i])
          /\ HasNestedReceiver(NodeAt(orig, last.path), rules[i].nested_method[1])
          /\ ~HasNestedReceiver(last.before, rules[i].nested_method[1])
          /\ last.fired # i
          /\ LastNode = last.before

====
